---- MODULE Spec2Model ----
(***************************************************************************)
(* OrganizationReleasesEndpoint.post                                       *)
(* (src/src/sentry/api/endpoints/organization_releases.py).                *)
(*                                                                         *)
(* Several callers run post() concurrently against one database: the       *)
(* Project table (fixed), the Release table, the ReleaseProject table and  *)
(* the Activity table, plus the named locks of sentry.app.locks.  Every    *)
(* action is one database round trip (or one lock attempt) of one caller   *)
(* together with the local control flow that follows it.                   *)
(*                                                                         *)
(* The lock service, the retry policy and the models' uniqueness           *)
(* constraints are imported by the endpoint but defined elsewhere; they    *)
(* are modelled from the design document (sections 3, 4.1, 4.2).           *)
(***************************************************************************)
EXTENDS Integers, FiniteSets, Sequences, Bags, TLC

(* ----------------------------- bounds ---------------------------------- *)
NumCallers == 2

(* ------------------------ program constants ---------------------------- *)
\* locks.get(lock_key, duration=5)
LockDuration == 5
\* TimedRetryPolicy(10)
RetryBound == 10

(* ----------------------------- values ---------------------------------- *)
None == "None"
Callers == 1..NumCallers

Orgs == {1, 2}
Versions == {"1.0"}

\* The Project table: pre-existing rows, never written by post().
Project ==
  { [id |-> 1, organization |-> 1, slug |-> "a"],
    [id |-> 2, organization |-> 1, slug |-> "b"],
    [id |-> 3, organization |-> 2, slug |-> "a"] }

\* The optional fields of a request (absent fields are None).
OptionalFields ==
  { [ref |-> None, url |-> None, owner |-> None, dateStarted |-> None,
     dateReleased |-> None],
    [ref |-> "r1", url |-> "u1", owner |-> "o1", dateStarted |-> "d1",
     dateReleased |-> "d2"] }
\* "x" is the slug of no project; "b" is a project of organization 1 only.
SlugLists == { {"a"}, {"a", "b"}, {"a", "x"} }

\* request.DATA after deserialisation (serializer.object), with the result of
\* serializer.is_valid().
Data(v, o, s) ==
  [valid |-> TRUE, version |-> v, ref |-> o.ref, url |-> o.url,
   owner |-> o.owner, dateStarted |-> o.dateStarted,
   dateReleased |-> o.dateReleased, projects |-> s]
InvalidData ==
  [valid |-> FALSE, version |-> None, ref |-> None, url |-> None,
   owner |-> None, dateStarted |-> None, dateReleased |-> None,
   projects |-> {}]

\* The requests the callers send: every combination of version, optional
\* fields and resolvable slug list, and three requests that are refused (an
\* unknown slug, a slug of another organization, a payload that does not
\* deserialise).
Requests ==
  { r \in { [organization |-> g, data |-> Data(v, o, s)] :
              g \in Orgs, v \in Versions, o \in OptionalFields,
              s \in SlugLists } :
      r.data.projects \subseteq
        { p.slug : p \in { q \in Project : q.organization = r.organization } } }
  \cup { [organization |-> 1,
          data |-> Data("1.0", CHOOSE o \in OptionalFields : o.ref = "r1", {"a", "x"})],
         [organization |-> 2,
          data |-> Data("1.0", CHOOSE o \in OptionalFields : o.ref = "r1", {"a", "b"})],
         [organization |-> 1, data |-> InvalidData] }

NoRelease ==
  [id |-> 0, organization_id |-> 0, version |-> None, ref |-> None,
   url |-> None, owner |-> None, date_started |-> None,
   date_released |-> None]

(* ----------------------------- state ----------------------------------- *)
VARIABLES
  releases,        \* Release table: set of rows (id is the primary key)
  releaseProjects, \* ReleaseProject table: bag of [release, project] rows
  activities,      \* Activity table: bag of [project, ident, datetime] rows
  notifications,   \* bag of activities whose send_notification() ran
  lock,            \* lock key -> [holder, duration]
  pc,              \* caller -> position in post()
  organization,    \* caller -> organization of the request URL
  result,          \* caller -> serializer.object
  projects,        \* caller -> Project rows found (line 110)
  release,         \* caller -> local variable release
  created,         \* caller -> local variable created
  attempts,        \* caller -> failed lock.acquire attempts so far
  todo,            \* caller -> projects the loop of line 145 has not visited
  new_projects,    \* caller -> local list new_projects
  sent,            \* caller -> how many of new_projects the loop of line 155 did
  status,          \* caller -> HTTP status of the Response (0: none yet)
  exc              \* caller -> exception that left post(), or None

dbvars == <<releases, releaseProjects, activities, notifications>>
reqvars == <<organization, result, projects>>
vars == <<releases, releaseProjects, activities, notifications, lock, pc,
          organization, result, projects, release, created, attempts, todo,
          new_projects, sent, status, exc>>

(* ------------------------ collaborators -------------------------------- *)
\* Release.get_lock_key(organization_id, version): one key per pair.
get_lock_key(organization_id, version) == <<organization_id, version>>
LockKeys == { get_lock_key(o, v) : o \in Orgs, v \in Versions }

\* A lock is free, or held by a caller of post() (holder in Callers) or by
\* some other process (holder 0).
Unlocked == [held |-> FALSE, holder |-> 0, duration |-> 0]
\* locks.get(key, duration): the handle; lock.acquire() succeeds only on a
\* lock nobody holds.
LockFree(key) == ~lock[key].held
LockAcquire(key, c, duration) ==
  [lock EXCEPT ![key] = [held |-> TRUE, holder |-> c, duration |-> duration]]
\* leaving the `with` block releases the lock.
LockRelease(key) == [lock EXCEPT ![key] = Unlocked]

\* Release.objects.filter(organization_id=..., version=...)
ReleaseRows(organization_id, version) ==
  { r \in releases : r.organization_id = organization_id /\ r.version = version }

\* unique_together (organization, version) of Release
ReleaseUnique(row) ==
  \A r \in releases :
    ~(r.organization_id = row.organization_id /\ r.version = row.version)

\* unique_together (project, release) of ReleaseProject
ReleaseProjectUnique(row) == ~BagIn(row, releaseProjects)

(* ----------------------------- Init ------------------------------------ *)
InitCallers ==
  /\ pc = [c \in Callers |-> "idle"]
  /\ organization = [c \in Callers |-> 0]
  /\ result = [c \in Callers |-> InvalidData]
  /\ projects = [c \in Callers |-> {}]
  /\ release = [c \in Callers |-> NoRelease]
  /\ created = [c \in Callers |-> FALSE]
  /\ attempts = [c \in Callers |-> 0]
  /\ todo = [c \in Callers |-> {}]
  /\ new_projects = [c \in Callers |-> <<>>]
  /\ sent = [c \in Callers |-> 0]
  /\ status = [c \in Callers |-> 0]
  /\ exc = [c \in Callers |-> None]

InitDb ==
  /\ releases = {}
  /\ releaseProjects = EmptyBag
  /\ activities = EmptyBag
  /\ notifications = EmptyBag

Init ==
  /\ InitDb
  /\ InitCallers
  /\ lock = [k \in LockKeys |-> Unlocked]

(* ------------------------- local control flow -------------------------- *)
\* lines 110-112: the slugs of data that are no project of organization org.
InvalidProjects_NoneFound(org, data) ==
  IF { p \in Project : p.organization = org /\ p.slug \in data.projects } = {}
  THEN data.projects ELSE {}
InvalidProjects(org, data) ==
  data.projects \
    { p.slug : p \in { q \in Project :
                         q.organization = org /\ q.slug \in data.projects } }

\* lines 154-155: the position of caller c after the loop of line 145 has
\* ended with new_projects = np, for the local release rel.
AfterLink_RequestDate(c, rel, np) ==
  IF result[c].dateReleased # None /\ np # <<>> THEN "notify" ELSE "done"
AfterLink(c, rel, np) ==
  IF rel.date_released # None /\ np # <<>> THEN "notify" ELSE "done"

\* lines 144-145: the position once release is bound.
AfterRelease(c, rel) ==
  IF projects[c] = {} THEN AfterLink(c, rel, <<>>) ELSE "link"

\* lines 169-176: the status of the response.
ResponseStatus_Created(cr) == 201
ResponseStatus(cr) == IF ~cr THEN 208 ELSE 201

\* line 178: the caller's status at a position (0 until post() has returned).
StatusAt(position, cr) == IF position = "done" THEN ResponseStatus(cr) ELSE 0

\* lines 134-142: the row Release.objects.create() is asked to insert.
NewRelease_UrlFromRef(c) ==
  [id |-> Cardinality(releases) + 1,
   organization_id |-> organization[c],
   version |-> result[c].version,
   ref |-> result[c].ref,
   url |-> result[c].ref,
   owner |-> result[c].owner,
   date_started |-> result[c].dateStarted,
   date_released |-> result[c].dateReleased]
NewRelease(c) ==
  [id |-> Cardinality(releases) + 1,
   organization_id |-> organization[c],
   version |-> result[c].version,
   ref |-> result[c].ref,
   url |-> result[c].url,
   owner |-> result[c].owner,
   date_started |-> result[c].dateStarted,
   date_released |-> result[c].dateReleased]

\* lines 156-162: the row Activity.objects.create() inserts for project p.
NewActivity_RequestDate(c, p) ==
  [type |-> "RELEASE", project |-> p.id, ident |-> result[c].version,
   datetime |-> result[c].dateReleased]
NewActivity(c, p) ==
  [type |-> "RELEASE", project |-> p.id, ident |-> result[c].version,
   datetime |-> release[c].date_released]

\* line 125
lock_key_VersionOnly(c) == get_lock_key(1, result[c].version)
lock_key(c) == get_lock_key(organization[c], result[c].version)

\* lines 118-121: the rows of the lock-free lookup.
FirstRelease_Skipped(c) == {}
FirstRelease(c) == ReleaseRows(organization[c], result[c].version)

\* lines 129-132: the rows of the lookup inside the lock.
GetRelease_Skipped(c) == {}
GetRelease(c) == ReleaseRows(organization[c], result[c].version)

\* TimedRetryPolicy: the count of failed attempts after one more.
NextAttempts(n) == n + 1

\* lines 149-152: new_projects after the insert for project p went through
\* (ok) or raised IntegrityError.
NewProjectsAfter_Always(c, p, ok) == Append(new_projects[c], p)
NewProjectsAfter(c, p, ok) ==
  IF ok THEN Append(new_projects[c], p) ELSE new_projects[c]

\* line 155: the position after n iterations of the activity loop.
NotifyPosition_ReturnsEarly(c, n) == "done"
NotifyPosition(c, n) == IF n = Len(new_projects[c]) THEN "done" ELSE "notify"

(* ------------------------------ actions -------------------------------- *)
\* lines 105-114 and 179: deserialise, resolve the project slugs.
PostValidate(c) ==
  /\ pc[c] = "idle"
  /\ \E request \in Requests :
       LET org == request.organization
           data == request.data
       IN  /\ organization' = [organization EXCEPT ![c] = org]
           /\ result' = [result EXCEPT ![c] = data]
           /\ IF ~data.valid \/ InvalidProjects(org, data) # {}
              THEN /\ status' = [status EXCEPT ![c] = 400]
                   /\ pc' = [pc EXCEPT ![c] = "done"]
                   /\ UNCHANGED projects
              ELSE /\ projects' =
                        [projects EXCEPT ![c] =
                           { p \in Project : p.organization = org
                                             /\ p.slug \in data.projects }]
                   /\ pc' = [pc EXCEPT ![c] = "lookup"]
                   /\ UNCHANGED status
  /\ UNCHANGED <<dbvars, lock, release, created, attempts, todo,
                 new_projects, sent, exc>>

\* lines 118-124: the lock-free lookup.
PostLookup(c) ==
  /\ pc[c] = "lookup"
  /\ IF FirstRelease(c) # {}
     THEN \E r \in FirstRelease(c) :
            /\ release' = [release EXCEPT ![c] = r]
            /\ created' = [created EXCEPT ![c] = FALSE]
            /\ todo' = [todo EXCEPT ![c] = projects[c]]
            /\ pc' = [pc EXCEPT ![c] = AfterRelease(c, r)]
            /\ status' = [status EXCEPT ![c] =
                            StatusAt(AfterRelease(c, r), FALSE)]
     ELSE /\ pc' = [pc EXCEPT ![c] = "acquire"]
          /\ UNCHANGED <<release, created, todo, status>>
  /\ UNCHANGED <<dbvars, reqvars, lock, attempts, new_projects, sent, exc>>

\* lines 125-127 with a blocking acquire in place of the retry policy.
PostAcquire_Blocking(c) ==
  /\ pc[c] = "acquire"
  /\ IF LockFree(lock_key(c))
     THEN /\ lock' = LockAcquire(lock_key(c), c, LockDuration)
          /\ pc' = [pc EXCEPT ![c] = "locked"]
     ELSE UNCHANGED <<lock, pc>>
  /\ UNCHANGED <<dbvars, reqvars, release, created, todo, new_projects,
                 sent, attempts, status, exc>>

\* lines 125-127 with the block entered once the attempts are used up.
PostAcquire_ProceedsOnTimeout(c) ==
  /\ pc[c] = "acquire"
  /\ IF LockFree(lock_key(c))
     THEN /\ lock' = LockAcquire(lock_key(c), c, LockDuration)
          /\ pc' = [pc EXCEPT ![c] = "locked"]
          /\ UNCHANGED attempts
     ELSE /\ attempts' = [attempts EXCEPT ![c] = NextAttempts(@)]
          /\ pc' = [pc EXCEPT ![c] =
                      IF NextAttempts(attempts[c]) >= RetryBound
                      THEN "locked" ELSE "acquire"]
          /\ UNCHANGED lock
  /\ UNCHANGED <<dbvars, reqvars, release, created, todo, new_projects,
                 sent, status, exc>>

\* lines 125-127: one attempt of TimedRetryPolicy(10)(lock.acquire).
PostAcquire(c) ==
  /\ pc[c] = "acquire"
  /\ IF LockFree(lock_key(c))
     THEN /\ lock' = LockAcquire(lock_key(c), c, LockDuration)
          /\ pc' = [pc EXCEPT ![c] = "locked"]
          /\ UNCHANGED <<attempts, status, exc>>
     ELSE /\ attempts' = [attempts EXCEPT ![c] = NextAttempts(@)]
          /\ IF NextAttempts(attempts[c]) >= RetryBound
             THEN /\ exc' = [exc EXCEPT ![c] = "LockTimeout"]
                  /\ status' = [status EXCEPT ![c] = 500]
                  /\ pc' = [pc EXCEPT ![c] = "done"]
             ELSE UNCHANGED <<pc, status, exc>>
          /\ UNCHANGED lock
  /\ UNCHANGED <<dbvars, reqvars, release, created, todo, new_projects,
                 sent>>

\* lines 128-133 with the lock released only after a create: the branch
\* that finds the row leaves the lock held.
PostRecheck_KeepsLock(c) ==
  /\ pc[c] = "locked"
  /\ IF GetRelease(c) = {}
     THEN /\ pc' = [pc EXCEPT ![c] = "create"]
          /\ UNCHANGED <<release, created, todo, status>>
     ELSE \E r \in GetRelease(c) :
            /\ release' = [release EXCEPT ![c] = r]
            /\ created' = [created EXCEPT ![c] = FALSE]
            /\ todo' = [todo EXCEPT ![c] = projects[c]]
            /\ pc' = [pc EXCEPT ![c] = AfterRelease(c, r)]
            /\ status' = [status EXCEPT ![c] =
                            StatusAt(AfterRelease(c, r), FALSE)]
  /\ UNCHANGED <<dbvars, reqvars, lock, attempts, new_projects, sent, exc>>

\* lines 128-133: Release.objects.get() inside the lock; when it finds the
\* row, the end of the `with` block.
PostRecheck(c) ==
  /\ pc[c] = "locked"
  /\ IF GetRelease(c) = {}
     THEN /\ pc' = [pc EXCEPT ![c] = "create"]
          /\ UNCHANGED <<release, created, todo, lock, status, exc>>
     ELSE IF Cardinality(GetRelease(c)) = 1
     THEN \E r \in GetRelease(c) :
            /\ release' = [release EXCEPT ![c] = r]
            /\ created' = [created EXCEPT ![c] = FALSE]
            /\ todo' = [todo EXCEPT ![c] = projects[c]]
            /\ lock' = LockRelease(lock_key(c))
            /\ pc' = [pc EXCEPT ![c] = AfterRelease(c, r)]
            /\ status' = [status EXCEPT ![c] =
                            StatusAt(AfterRelease(c, r), FALSE)]
            /\ UNCHANGED exc
     ELSE /\ exc' = [exc EXCEPT ![c] = "MultipleObjectsReturned"]
          /\ status' = [status EXCEPT ![c] = 500]
          /\ lock' = LockRelease(lock_key(c))
          /\ pc' = [pc EXCEPT ![c] = "done"]
          /\ UNCHANGED <<release, created, todo>>
  /\ UNCHANGED <<dbvars, reqvars, attempts, new_projects, sent>>

\* lines 134-142 with the `with` block ending after the linking loop: the
\* lock is still held when the create has gone through.
PostCreate_LockKept(c) ==
  /\ pc[c] = "create"
  /\ IF ReleaseUnique(NewRelease(c))
     THEN /\ releases' = releases \cup {NewRelease(c)}
          /\ release' = [release EXCEPT ![c] = NewRelease(c)]
          /\ created' = [created EXCEPT ![c] = TRUE]
          /\ todo' = [todo EXCEPT ![c] = projects[c]]
          /\ pc' = [pc EXCEPT ![c] = AfterRelease(c, NewRelease(c))]
          /\ status' = [status EXCEPT ![c] =
                          StatusAt(AfterRelease(c, NewRelease(c)), TRUE)]
          /\ UNCHANGED <<exc, lock>>
     ELSE /\ exc' = [exc EXCEPT ![c] = "IntegrityError"]
          /\ status' = [status EXCEPT ![c] = 500]
          /\ pc' = [pc EXCEPT ![c] = "done"]
          /\ lock' = LockRelease(lock_key(c))
          /\ UNCHANGED <<releases, release, created, todo>>
  /\ UNCHANGED <<releaseProjects, activities, notifications, reqvars,
                 attempts, new_projects, sent>>

\* lines 134-142 with the IntegrityError of the create caught and the
\* existing row taken instead.
PostCreate_Swallows(c) ==
  /\ pc[c] = "create"
  /\ IF ReleaseUnique(NewRelease(c))
     THEN /\ releases' = releases \cup {NewRelease(c)}
          /\ release' = [release EXCEPT ![c] = NewRelease(c)]
          /\ created' = [created EXCEPT ![c] = TRUE]
          /\ pc' = [pc EXCEPT ![c] = AfterRelease(c, NewRelease(c))]
          /\ status' = [status EXCEPT ![c] =
                          StatusAt(AfterRelease(c, NewRelease(c)), TRUE)]
     ELSE \E r \in ReleaseRows(organization[c], result[c].version) :
            /\ release' = [release EXCEPT ![c] = r]
            /\ created' = [created EXCEPT ![c] = FALSE]
            /\ pc' = [pc EXCEPT ![c] = AfterRelease(c, r)]
            /\ status' = [status EXCEPT ![c] =
                            StatusAt(AfterRelease(c, r), FALSE)]
            /\ UNCHANGED releases
  /\ todo' = [todo EXCEPT ![c] = projects[c]]
  /\ lock' = LockRelease(lock_key(c))
  /\ UNCHANGED <<releaseProjects, activities, notifications, reqvars,
                 attempts, new_projects, sent, exc>>

\* lines 134-142: Release.objects.create() inside the lock, then the end of
\* the `with` block.
PostCreate(c) ==
  /\ pc[c] = "create"
  /\ IF ReleaseUnique(NewRelease(c))
     THEN /\ releases' = releases \cup {NewRelease(c)}
          /\ release' = [release EXCEPT ![c] = NewRelease(c)]
          /\ created' = [created EXCEPT ![c] = TRUE]
          /\ todo' = [todo EXCEPT ![c] = projects[c]]
          /\ pc' = [pc EXCEPT ![c] = AfterRelease(c, NewRelease(c))]
          /\ status' = [status EXCEPT ![c] =
                          StatusAt(AfterRelease(c, NewRelease(c)), TRUE)]
          /\ UNCHANGED exc
     ELSE /\ exc' = [exc EXCEPT ![c] = "IntegrityError"]
          /\ status' = [status EXCEPT ![c] = 500]
          /\ pc' = [pc EXCEPT ![c] = "done"]
          /\ UNCHANGED <<releases, release, created, todo>>
  /\ lock' = LockRelease(lock_key(c))
  /\ UNCHANGED <<releaseProjects, activities, notifications, reqvars,
                 attempts, new_projects, sent>>

\* lines 145-152 without the try/except: the IntegrityError of a duplicate
\* insert leaves post().
PostLink_Raises(c) ==
  /\ pc[c] = "link"
  /\ \E p \in todo[c] :
       LET row == [release |-> release[c].id, project |-> p.id]
           ok == ReleaseProjectUnique(row)
           np == NewProjectsAfter(c, p, ok)
           position == IF ~ok THEN "done"
                       ELSE IF todo[c] = {p}
                            THEN AfterLink(c, release[c], np)
                            ELSE "link"
       IN  /\ releaseProjects' =
                IF ok THEN releaseProjects (+) SetToBag({row})
                ELSE releaseProjects
           /\ new_projects' = [new_projects EXCEPT ![c] = np]
           /\ todo' = [todo EXCEPT ![c] = @ \ {p}]
           /\ pc' = [pc EXCEPT ![c] = position]
           /\ exc' = [exc EXCEPT ![c] = IF ok THEN @ ELSE "IntegrityError"]
           /\ status' = [status EXCEPT ![c] =
                           IF ok THEN StatusAt(position, created[c]) ELSE 500]
  /\ UNCHANGED <<releases, activities, notifications, reqvars, lock,
                 release, created, attempts, sent>>

\* lines 145-152: one iteration of the linking loop; after the last one,
\* lines 154 and 165-178.
PostLink(c) ==
  /\ pc[c] = "link"
  /\ \E p \in todo[c] :
       LET row == [release |-> release[c].id, project |-> p.id]
           ok == ReleaseProjectUnique(row)
           np == NewProjectsAfter(c, p, ok)
           position == IF todo[c] = {p} THEN AfterLink(c, release[c], np)
                       ELSE "link"
       IN  /\ releaseProjects' =
                IF ok THEN releaseProjects (+) SetToBag({row})
                ELSE releaseProjects
           /\ new_projects' = [new_projects EXCEPT ![c] = np]
           /\ todo' = [todo EXCEPT ![c] = @ \ {p}]
           /\ pc' = [pc EXCEPT ![c] = position]
           /\ status' = [status EXCEPT ![c] = StatusAt(position, created[c])]
  /\ UNCHANGED <<releases, activities, notifications, reqvars, lock,
                 release, created, attempts, sent, exc>>

\* lines 155-163 with the loop over projects in place of new_projects.
PostNotify_AllProjects(c) ==
  /\ pc[c] = "notify"
  /\ \E p \in projects[c] :
       /\ activities' = activities (+) SetToBag({NewActivity(c, p)})
       /\ notifications' = notifications (+) SetToBag({NewActivity(c, p)})
  /\ sent' = [sent EXCEPT ![c] = @ + 1]
  /\ pc' = [pc EXCEPT ![c] = NotifyPosition(c, sent[c] + 1)]
  /\ status' = [status EXCEPT ![c] =
                  StatusAt(NotifyPosition(c, sent[c] + 1), created[c])]
  /\ UNCHANGED <<releases, releaseProjects, reqvars, lock, release, created,
                 attempts, todo, new_projects, exc>>

\* lines 155-163: one iteration of the activity loop; after the last one,
\* lines 165-178.
PostNotify(c) ==
  /\ pc[c] = "notify"
  /\ LET p == new_projects[c][sent[c] + 1]
     IN  /\ activities' = activities (+) SetToBag({NewActivity(c, p)})
         /\ notifications' = notifications (+) SetToBag({NewActivity(c, p)})
  /\ sent' = [sent EXCEPT ![c] = @ + 1]
  /\ pc' = [pc EXCEPT ![c] = NotifyPosition(c, sent[c] + 1)]
  /\ status' = [status EXCEPT ![c] =
                  StatusAt(NotifyPosition(c, sent[c] + 1), created[c])]
  /\ UNCHANGED <<releases, releaseProjects, reqvars, lock, release, created,
                 attempts, todo, new_projects, exc>>

Next ==
  \E c \in Callers :
    \/ PostValidate(c)
    \/ PostLookup(c)
    \/ PostAcquire(c)
    \/ PostRecheck(c)
    \/ PostCreate(c)
    \/ PostLink(c)
    \/ PostNotify(c)

Spec == Init /\ [][Next]_vars

(* ---------------- a lock that its holder never releases ---------------- *)
\* The lock of HeldKey is held from the start by a process that is not a
\* caller of post() and never releases it.
HeldKey == get_lock_key(1, "1.0")

InitHeld ==
  /\ InitDb
  /\ InitCallers
  /\ lock = [k \in LockKeys |->
               IF k = HeldKey
               THEN [held |-> TRUE, holder |-> 0, duration |-> LockDuration]
               ELSE Unlocked]

\* The requests are running processes: while some request can take a step,
\* one eventually does.
Fairness == WF_vars(Next)

SpecHeld == InitHeld /\ [][Next]_vars /\ Fairness

(* ------------------- a lock that outlives its duration ----------------- *)
\* The lock is time-bounded: once a caller has held it for longer than its
\* duration, lock.acquire() of another caller succeeds although the holder
\* is still inside the `with` block.
PostAcquireExpired(c) ==
  /\ pc[c] = "acquire"
  /\ lock[lock_key(c)].held
  /\ lock[lock_key(c)].holder \in Callers
  /\ lock[lock_key(c)].duration = LockDuration
  /\ lock' = LockAcquire(lock_key(c), c, LockDuration)
  /\ pc' = [pc EXCEPT ![c] = "locked"]
  /\ UNCHANGED <<dbvars, reqvars, release, created, attempts, todo,
                 new_projects, sent, status, exc>>

NextExpiry ==
  \/ Next
  \/ \E c \in Callers : PostAcquireExpired(c)

SpecExpiry == Init /\ [][NextExpiry]_vars

(* ---------------------- a dispatch that can fail ----------------------- *)
\* lines 156-163 when Activity.objects.create() (stage "create") or
\* activity.send_notification() (stage "send") raises: nothing in post()
\* catches the exception, so the loop and the call end there.
PostNotifyFails(c) ==
  /\ pc[c] = "notify"
  /\ \E stage \in {"create", "send"} :
       LET p == new_projects[c][sent[c] + 1]
       IN  activities' =
             IF stage = "send"
             THEN activities (+) SetToBag({NewActivity(c, p)})
             ELSE activities
  /\ exc' = [exc EXCEPT ![c] = "DispatchError"]
  /\ status' = [status EXCEPT ![c] = 500]
  /\ pc' = [pc EXCEPT ![c] = "done"]
  /\ UNCHANGED <<releases, releaseProjects, notifications, reqvars, lock,
                 release, created, attempts, todo, new_projects, sent>>

NextDispatch ==
  \/ Next
  \/ \E c \in Callers : PostNotifyFails(c)

SpecDispatch == Init /\ [][NextDispatch]_vars

(* ============================ properties =============================== *)
\* The (tenant, version) pair a caller's request names.
KeyOf(c) == <<organization[c], result[c].version>>

\* The caller's request passed validation (lines 105-114).
Accepted(c) == pc[c] # "idle" /\ status[c] # 400

\* The rows of the Release table for a (tenant, version) pair.
RowsOf(k) == { r \in releases : <<r.organization_id, r.version>> = k }

\* The step just taken is a step of caller c.
Stepped(c) ==
  <<pc[c], attempts[c], todo[c], sent[c]>>
    # <<pc'[c], attempts'[c], todo'[c], sent'[c]>>

\* The optional fields of the stored row are those of caller c's request.
FieldsFrom(r, c) ==
  /\ r.ref = result[c].ref
  /\ r.url = result[c].url
  /\ r.owner = result[c].owner
  /\ r.date_started = result[c].dateStarted
  /\ r.date_released = result[c].dateReleased

\* The ReleaseProject rows linking release id rid to project id pid.
Links(rid, pid) ==
  CopiesIn([release |-> rid, project |-> pid], releaseProjects)

\* The Activity rows for project id pid and version v.
Events(pid, v) ==
  LET rows == { a \in BagToSet(activities) : a.project = pid /\ a.ident = v }
  IN  BagCardinality([a \in rows |-> activities[a]])

RECURSIVE SumNew(_)
SumNew(cs) ==
  IF cs = {} THEN 0
  ELSE LET c == CHOOSE x \in cs : TRUE
       IN  Len(new_projects[c]) + SumNew(cs \ {c})

\* The callers whose local release is the row r.
Holding(r) == { c \in Callers : release[c] = r }

\* The ids of the projects the callers cs asked to link.
Requested(cs) == UNION { { p.id : p \in projects[c] } : c \in cs }

(* ----------------------------------------------------------------------- *)
\* C1: once every caller that asked for a (tenant, version) pair with a
\* valid request has finished, the pair has exactly one Release row, exactly
\* one of those callers has created = TRUE, and the row's optional fields
\* are the ones that caller supplied.
C1_SingleCreation ==
  \A k \in LockKeys :
    LET group == { c \in Callers : Accepted(c) /\ KeyOf(c) = k }
        winners == { c \in group : created[c] }
    IN  (group # {} /\ \A c \in group : pc[c] = "done")
          => /\ Cardinality(RowsOf(k)) = 1
             /\ Cardinality(winners) = 1
             /\ \A c \in winners : \A r \in RowsOf(k) : FieldsFrom(r, c)

\* Two callers raced for one pair with different optional fields; both have
\* finished, one created the release and the other, after waiting for the
\* lock, got it back as existing.
C1_Witness ==
  \E c1, c2 \in Callers :
    /\ c1 # c2 /\ Accepted(c1) /\ Accepted(c2) /\ KeyOf(c1) = KeyOf(c2)
    /\ pc[c1] = "done" /\ pc[c2] = "done"
    /\ result[c1].url # result[c2].url
    /\ result[c1].url # None
    /\ created[c1] /\ status[c1] = 201
    /\ ~created[c2] /\ status[c2] = 208 /\ attempts[c2] > 0

(* ----------------------------------------------------------------------- *)
\* C2: a call whose lookup runs when an earlier call for the same pair has
\* completed with success gets that call's Release with created = FALSE,
\* raises nothing, answers 208, and no step of it changes the Release table.
C2_Idempotent ==
  [][ \A c \in Callers :
        /\ ( /\ pc[c] = "lookup" /\ Stepped(c)
             /\ \E e \in Callers :
                  /\ e # c /\ KeyOf(e) = KeyOf(c)
                  /\ pc[e] = "done" /\ status[e] \in {201, 208} )
           => /\ \A e \in Callers :
                   (KeyOf(e) = KeyOf(c) /\ pc[e] = "done"
                      /\ status[e] \in {201, 208}) => release'[c] = release[e]
              /\ created'[c] = FALSE
              /\ exc'[c] = None
              /\ pc'[c] \in {"link", "notify", "done"}
              /\ releases' = releases
        /\ ( /\ pc[c] \in {"lookup", "link", "notify"} /\ Stepped(c)
             /\ ~created[c] /\ pc'[c] = "done" )
           => /\ status'[c] = 208
              /\ releases' = releases
        /\ (pc[c] \in {"link", "notify"} /\ Stepped(c))
           => (releases' = releases /\ exc'[c] = None)
    ]_vars

\* A call that never had to ask for the lock has answered 208 with the
\* release another, completed call created.
C2_Witness ==
  \E c, e \in Callers :
    /\ c # e /\ KeyOf(c) = KeyOf(e)
    /\ pc[e] = "done" /\ status[e] = 201
    /\ pc[c] = "done" /\ status[c] = 208 /\ attempts[c] = 0
    /\ release[c] = release[e] /\ release[c] \in releases
    /\ result[c].dateReleased # result[e].dateReleased
    /\ Cardinality(releases) = 1

(* ----------------------------------------------------------------------- *)
\* C3: once every caller linking projects to a release has been through its
\* linking loop, the release's ReleaseProject rows are exactly the projects
\* those callers asked for, one row each, and the lengths of the callers'
\* new_projects lists add up to the number of those projects.
C3_LinkUnion ==
  \A r \in releases :
    (\A c \in Holding(r) : pc[c] \in {"notify", "done"})
      => /\ \A p \in Project :
              Links(r.id, p.id)
                = (IF p.id \in Requested(Holding(r)) THEN 1 ELSE 0)
         /\ SumNew(Holding(r)) = Cardinality(Requested(Holding(r)))

\* Two callers linked overlapping project sets to one release; the shared
\* project was newly linked by one of them only.
C3_Witness ==
  \E c1, c2 \in Callers : \E r \in releases :
    /\ c1 # c2 /\ Holding(r) = {c1, c2}
    /\ pc[c1] = "done" /\ pc[c2] = "done"
    /\ Cardinality(projects[c1]) = 2 /\ Cardinality(projects[c2]) = 1
    /\ projects[c2] \subseteq projects[c1]
    /\ Len(new_projects[c1]) = 1 /\ Len(new_projects[c2]) = 1

(* ----------------------------------------------------------------------- *)
\* C4: for a release whose date_released is set, once the callers that hold
\* it have finished, every project they asked for is linked by exactly one
\* ReleaseProject row and has exactly one Activity.
C4_OneEventPerLink ==
  \A r \in releases :
    (r.date_released # None /\ \A c \in Holding(r) : pc[c] = "done")
      => \A p \in Project :
           (p.id \in Requested(Holding(r)))
             => (Links(r.id, p.id) = 1 /\ Events(p.id, r.version) = 1)

\* Scenario D: two callers linked the same project to the same live
\* release, and both have finished.
C4_Witness ==
  \E c1, c2 \in Callers : \E r \in releases :
    /\ c1 # c2 /\ Holding(r) = {c1, c2} /\ r.date_released # None
    /\ pc[c1] = "done" /\ pc[c2] = "done"
    /\ projects[c1] \cap projects[c2] # {}
    /\ \E p \in projects[c1] \cap projects[c2] : Events(p.id, r.version) = 1

(* ----------------------------------------------------------------------- *)
\* C5: while a release's date_released is null there is no Activity for it:
\* none for its version and a project of its organization.
C5_NoEventWhenNotLive ==
  \A r \in releases :
    r.date_released = None
      => \A p \in Project :
           p.organization = r.organization_id => Events(p.id, r.version) = 0

\* A release with null date_released has two links, made by two callers, one
\* of which supplied dateReleased in its own request.
C5_Witness ==
  \E c1, c2 \in Callers : \E r \in releases :
    /\ c1 # c2 /\ Holding(r) = {c1, c2} /\ r.date_released = None
    /\ pc[c1] = "done" /\ pc[c2] = "done"
    /\ result[c2].dateReleased # None
    /\ Len(new_projects[c1]) = 1 /\ Len(new_projects[c2]) = 1

(* ----------------------------------------------------------------------- *)
\* C6: a request naming a slug that is no project of its organization ends
\* at once with status 400 and no exception; the caller never asks for a
\* lock, binds no release, and its step leaves the Release, ReleaseProject
\* and Activity tables and the locks as they were.
C6_InvalidSlugRejected ==
  [][ \A c \in Callers :
        ( /\ pc'[c] # "idle"
          /\ result'[c].valid
          /\ \E s \in result'[c].projects :
               \A p \in Project :
                 ~(p.organization = organization'[c] /\ p.slug = s) )
        => /\ pc'[c] = "done"
           /\ status'[c] = 400
           /\ exc'[c] = None
           /\ attempts'[c] = 0
           /\ release'[c] = NoRelease
           /\ new_projects'[c] = <<>>
           /\ \A k \in LockKeys : ~(lock'[k].held /\ lock'[k].holder = c)
           /\ Stepped(c) => UNCHANGED <<dbvars, lock>>
    ]_vars

\* A request with one resolvable and one unknown slug was refused while a
\* release of the same organization and version exists.
C6_Witness ==
  \E c \in Callers :
    /\ pc[c] = "done" /\ status[c] = 400 /\ result[c].valid
    /\ result[c].projects = {"a", "x"}
    /\ RowsOf(KeyOf(c)) # {}

(* ----------------------------------------------------------------------- *)
\* C7: when the lock of a pair is held by a holder that never releases it,
\* a caller that has to acquire that lock eventually ends with LockTimeout.
C7_LockTimeout ==
  \A c \in Callers :
    (pc[c] = "acquire" /\ KeyOf(c) = HeldKey)
      ~> (pc[c] = "done" /\ exc[c] = "LockTimeout")

\* A caller has given up after RetryBound failed attempts on the held lock.
C7_Witness ==
  \E c \in Callers :
    /\ pc[c] = "done" /\ exc[c] = "LockTimeout" /\ KeyOf(c) = HeldKey
    /\ attempts[c] = RetryBound
    /\ lock[HeldKey].held /\ lock[HeldKey].holder = 0

(* ----------------------------------------------------------------------- *)
\* C8: a release created by a request without dateReleased has a non-null
\* date_released.
C8_DateReleasedDefaultsToNow ==
  \A c \in Callers :
    (created[c] /\ result[c].dateReleased = None)
      => \A r \in RowsOf(KeyOf(c)) : r.date_released # None

C10_DoubleCheck ==
  [][ \A c \in Callers :
        /\ (pc[c] = "locked" /\ Stepped(c) /\ RowsOf(KeyOf(c)) # {})
           => /\ release'[c] \in RowsOf(KeyOf(c))
              /\ created'[c] = FALSE
              /\ releases' = releases
              /\ exc'[c] = None
              /\ pc'[c] \in {"link", "notify", "done"}
              /\ pc'[c] = "done" => status'[c] = 208
        /\ (pc[c] = "create" /\ Stepped(c))
           => RowsOf(KeyOf(c)) = {}
    ]_vars

\* A caller that failed to get the lock at least once, hence found no
\* release in its lock-free lookup, has answered 208 with the release
\* another caller created.
C10_Witness ==
  \E c, e \in Callers :
    /\ c # e /\ attempts[c] > 0 /\ exc[c] = None
    /\ pc[c] = "done" /\ status[c] = 208 /\ ~created[c]
    /\ created[e] /\ release[c] = release[e]
    /\ release[c] \in RowsOf(KeyOf(c))

(* ----------------------------------------------------------------------- *)
\* C11: a caller whose lock-free lookup runs when the release of its pair
\* exists binds that release with created = FALSE, has made no lock attempt,
\* inserts no Release row, and neither that step nor any later step of the
\* call changes a lock.
C11_FastPath ==
  [][ \A c \in Callers :
        /\ (pc[c] = "lookup" /\ Stepped(c) /\ RowsOf(KeyOf(c)) # {})
           => /\ release'[c] \in RowsOf(KeyOf(c))
              /\ created'[c] = FALSE
              /\ attempts'[c] = 0
              /\ pc'[c] \in {"link", "notify", "done"}
              /\ lock' = lock
              /\ releases' = releases
        /\ (pc[c] \in {"link", "notify"} /\ attempts[c] = 0 /\ ~created[c]
              /\ Stepped(c))
           => (lock' = lock /\ releases' = releases /\ attempts'[c] = 0)
    ]_vars

\* A caller on the fast path is linking projects to the release while its
\* creator is still linking too; no lock is held.
C11_Witness ==
  \E c, e \in Callers :
    /\ c # e /\ KeyOf(c) = KeyOf(e)
    /\ pc[c] = "link" /\ ~created[c] /\ attempts[c] = 0
    /\ release[c] \in RowsOf(KeyOf(c))
    /\ pc[e] = "link" /\ created[e]
    /\ \A k \in LockKeys : ~lock[k].held

(* ----------------------------------------------------------------------- *)
\* C12: a caller that is not between lock.acquire and the end of the `with`
\* block holds no lock, and when a caller leaves that block (the re-check
\* found the row, the create went through, or the create raised) the lock
\* of its pair is free.
C12_LockReleased ==
  /\ [](\A c \in Callers :
          pc[c] \notin {"locked", "create"}
            => \A k \in LockKeys : ~(lock[k].held /\ lock[k].holder = c))
  /\ [][ \A c \in Callers :
           (pc[c] \in {"locked", "create"}
              /\ pc'[c] \notin {"locked", "create"})
             => ~lock'[KeyOf(c)].held
       ]_vars

\* All three exits were taken: one caller's create raised IntegrityError,
\* the other's went through, and no lock is held.
C12_Witness ==
  \E c, e \in Callers :
    /\ c # e /\ KeyOf(c) = KeyOf(e)
    /\ pc[c] = "done" /\ exc[c] = "IntegrityError"
    /\ created[e] /\ pc[e] \in {"link", "notify", "done"}
    /\ \A k \in LockKeys : ~lock[k].held

(* ----------------------------------------------------------------------- *)
\* C15: a create that runs when the release of the pair already exists
\* raises IntegrityError out of post(): the caller keeps created = FALSE,
\* binds no release, gets no 201 or 208, and the pair still has one row.
C15_DuplicateReleaseIsFatal ==
  /\ [][ \A c \in Callers :
           (pc[c] = "create" /\ Stepped(c) /\ RowsOf(KeyOf(c)) # {})
             => /\ pc'[c] = "done"
                /\ exc'[c] = "IntegrityError"
                /\ created'[c] = FALSE
                /\ release'[c] = NoRelease
                /\ status'[c] \notin {201, 208}
                /\ releases' = releases
       ]_vars
  /\ [](\A k \in LockKeys : Cardinality(RowsOf(k)) <= 1)
  /\ [](\A c \in Callers :
          exc[c] = "IntegrityError"
            => (pc[c] = "done" /\ ~created[c] /\ status[c] = 500))

\* Two callers were both past the re-check; one created the release, the
\* other's create hit the uniqueness constraint.
C15_Witness ==
  \E c, e \in Callers :
    /\ c # e /\ KeyOf(c) = KeyOf(e)
    /\ pc[c] = "done" /\ exc[c] = "IntegrityError" /\ status[c] = 500
    /\ created[e] /\ release[e] \in RowsOf(KeyOf(c))
    /\ Cardinality(RowsOf(KeyOf(c))) = 1

(* ----------------------------------------------------------------------- *)
\* C13: a caller in the linking loop or the activity loop holds no lock, its
\* steps there leave the locks alone, and its next insert can always go
\* ahead, whoever holds a lock.
C13_LockScope ==
  /\ [](\A c \in Callers :
          pc[c] \in {"link", "notify"}
            => /\ \A k \in LockKeys : ~(lock[k].held /\ lock[k].holder = c)
               /\ pc[c] = "link" => ENABLED PostLink(c)
               /\ pc[c] = "notify" => ENABLED PostNotify(c))
  /\ [][ \A c \in Callers :
           (pc[c] \in {"link", "notify"} /\ Stepped(c)) => lock' = lock
       ]_vars

\* A caller has linked a project to the release and goes on linking while
\* another caller of the same pair holds the pair's lock.
C13_Witness ==
  \E c, e \in Callers :
    /\ c # e /\ KeyOf(c) = KeyOf(e)
    /\ pc[c] = "link" /\ new_projects[c] # <<>>
    /\ pc[e] = "locked" /\ lock[KeyOf(e)].holder = e

(* ----------------------------------------------------------------------- *)
\* C14: an insert of a (release, project) pair that is already linked
\* raises nothing out of post(), adds nothing to new_projects and no row;
\* the loop goes on to the projects left, and the call ends with 201 or 208.
C14_DuplicateLinkSwallowed ==
  /\ [][ \A c \in Callers :
           (pc[c] = "link" /\ Stepped(c))
             => \A p \in todo[c] \ todo'[c] :
                  Links(release[c].id, p.id) > 0
                    => /\ new_projects'[c] = new_projects[c]
                       /\ releaseProjects' = releaseProjects
                       /\ exc'[c] = None
                       /\ todo'[c] # {} => pc'[c] = "link"
                       /\ pc'[c] = "done" => status'[c] \in {201, 208}
       ]_vars
  /\ [](\A c \in Callers :
          (pc[c] \in {"notify", "done"} /\ release[c] # NoRelease)
            => /\ todo[c] = {}
               /\ exc[c] = None
               /\ pc[c] = "done" => status[c] \in {201, 208})

\* A caller asked for two projects, found one of them linked already, newly
\* linked the other and answered 208.
C14_Witness ==
  \E c \in Callers :
    /\ pc[c] = "done" /\ status[c] = 208
    /\ Cardinality(projects[c]) = 2 /\ Len(new_projects[c]) = 1
    /\ \A p \in projects[c] : Links(release[c].id, p.id) = 1

(* ----------------------------------------------------------------------- *)
\* C16: when the dispatch for one newly linked project fails, every other
\* project of the caller's new_projects still has its Activity once the
\* call has ended.
C16_DispatchFailureIsolated ==
  \A c \in Callers :
    (pc[c] = "done" /\ exc[c] = "DispatchError")
      => \A i \in 1..Len(new_projects[c]) :
           i # sent[c] + 1
             => Events(new_projects[c][i].id, result[c].version) >= 1

(* ----------------------------------------------------------------------- *)
\* The stored release an Activity row belongs to: the release of the
\* activity's version in the organization of the activity's project.
ReleasesOf(a) ==
  { r \in releases :
      /\ r.version = a.ident
      /\ \E p \in Project :
           p.id = a.project /\ p.organization = r.organization_id }

\* C17: once a (tenant, version) pair has a Release row, that row is never
\* changed, removed or joined by another; a caller whose release has a null
\* date_released emits nothing, whatever dateReleased it supplied; and every
\* Activity carries the date_released of the stored release.
C17_StoredReleaseGoverns ==
  /\ [][ \A k \in LockKeys :
           RowsOf(k) # {}
             => { r \in releases' : <<r.organization_id, r.version>> = k }
                  = RowsOf(k)
       ]_vars
  /\ [](\A c \in Callers :
          (release[c] # NoRelease /\ release[c].date_released = None)
            => sent[c] = 0)
  /\ [](\A c \in Callers :
          release[c] # NoRelease => release[c] \in releases)
  /\ [](\A a \in BagToSet(activities) :
          /\ ReleasesOf(a) # {}
          /\ \A r \in ReleasesOf(a) :
               r.date_released # None /\ a.datetime = r.date_released)

\* A caller that supplied no dateReleased found a release stored with one
\* and emitted an Activity carrying the stored date.
C17_Witness ==
  \E c \in Callers :
    /\ result[c].dateReleased = None /\ ~created[c]
    /\ release[c].date_released = "d2" /\ sent[c] = 1
    /\ CopiesIn([type |-> "RELEASE", project |-> new_projects[c][1].id,
                 ident |-> result[c].version, datetime |-> "d2"],
                activities) = 1

(* ----------------------------------------------------------------------- *)
\* C18: every ReleaseProject row names a stored release and a project of
\* its organization; every Activity belongs to a stored release with a
\* non-null date_released that is linked to the activity's project; and an
\* Activity is inserted only by a caller that has that project in its
\* new_projects.
C18_ReferentialOrder ==
  /\ [](\A row \in BagToSet(releaseProjects) :
          \E r \in releases : \E p \in Project :
            /\ r.id = row.release /\ p.id = row.project
            /\ p.organization = r.organization_id)
  /\ [](\A a \in BagToSet(activities) :
          \E r \in ReleasesOf(a) :
            r.date_released # None /\ Links(r.id, a.project) >= 1)
  /\ [][ \A c \in Callers :
           Stepped(c)
             => \A a \in BagToSet(activities') :
                  CopiesIn(a, activities') > CopiesIn(a, activities)
                    => /\ pc[c] = "notify"
                       /\ \E i \in 1..Len(new_projects[c]) :
                            new_projects[c][i].id = a.project
                       /\ Links(release[c].id, a.project) >= 1
       ]_vars

\* Two callers linked one project each to a live release and each emitted
\* the Activity of its own project.
C18_Witness ==
  \E c, e \in Callers :
    /\ c # e /\ release[c] = release[e] /\ release[c] \in releases
    /\ sent[c] = 1 /\ sent[e] = 1
    /\ new_projects[c] # new_projects[e]
    /\ BagCardinality(activities) = 2
    /\ BagCardinality(releaseProjects) = 2

(* ----------------------------------------------------------------------- *)
\* C19: a caller that has used up its RetryBound attempts has ended with
\* LockTimeout: it has bound no release, created none, linked and emitted
\* nothing and holds no lock; none of its steps wrote a table, and its last
\* step left the locks as they were.
C19_TimeoutLeavesNoTrace ==
  /\ [](\A c \in Callers :
          (attempts[c] >= RetryBound \/ exc[c] = "LockTimeout")
            => /\ pc[c] = "done" /\ exc[c] = "LockTimeout"
               /\ status[c] = 500
               /\ release[c] = NoRelease /\ ~created[c]
               /\ todo[c] = {} /\ new_projects[c] = <<>> /\ sent[c] = 0
               /\ \A k \in LockKeys : ~(lock[k].held /\ lock[k].holder = c))
  /\ [][ \A c \in Callers :
           (pc[c] \in {"idle", "lookup", "acquire"} /\ Stepped(c))
             => /\ UNCHANGED dbvars
                /\ exc'[c] = "LockTimeout" => lock' = lock
       ]_vars

\* A caller timed out while the caller holding the lock went on to create
\* the release; a project only the timed-out caller asked for is not
\* linked.
C19_Witness ==
  \E c, e \in Callers :
    /\ c # e /\ KeyOf(c) = KeyOf(e)
    /\ pc[c] = "done" /\ exc[c] = "LockTimeout"
    /\ pc[e] = "done" /\ created[e]
    /\ \E p \in projects[c] \ projects[e] : Links(release[e].id, p.id) = 0

====
